---- MODULE Spec2Model ----
(***************************************************************************)
(* Model of testax (src/lib.rs): the test harness for an in-process actix *)
(* service.  get and post_json build a request, hand it to the service    *)
(* through call_service_res, drain the response body and wrap status and  *)
(* lossy-decoded body into a RespBody, or turn the service's own error    *)
(* into an anyhow error.                                                   *)
(*                                                                         *)
(* Text is a sequence of Unicode code points, a byte string a sequence of *)
(* numbers 0..255.  A path is the sequence of its segments.               *)
(***************************************************************************)
EXTENDS Integers, Sequences, FiniteSets, TLC

VARIABLES
    app,        \* the service under test; fixed once initialised
    fut,        \* per caller, the state of its get/post_json future
    svcfut,     \* per caller, the future app.call(req) returned to it
    borrow,     \* the callers holding a borrow of the service
    log,        \* the dispatches that returned, oldest first
    calls,      \* the number of dispatches begun
    aborted     \* TRUE once a panic has ended the process

vars == <<app, fut, svcfut, borrow, log, calls, aborted>>

(***************************************************************************)
(* Bounds of the model.                                                    *)
(***************************************************************************)
NumCallers == 2
MaxCalls == 2

Callers == 1..NumCallers

(***************************************************************************)
(* Text literals of the source, as code points.                            *)
(***************************************************************************)
T_Filip == <<70, 105, 108, 105, 112>>            \* "Filip"
T_32 == <<51, 50>>                               \* "32"
T_Not == <<78, 111, 116>>                        \* "Not"
T_api == <<97, 112, 105>>                        \* "api"
T_users == <<117, 115, 101, 114, 115>>           \* "users"
T_Hello == <<72, 101, 108, 108, 111, 32>>        \* "Hello "
T_id == <<33, 32, 105, 100, 58>>                 \* "! id:"
T_NameIs == <<78, 97, 109, 101, 32, 105, 115, 58, 32>>  \* "Name is: "
T_Bang == <<33>>                                 \* "!"
T_Quote == <<34>>                                \* a name holding a double quote
T_Eacute == <<233>>                              \* a name holding U+00E9
T_Backslash == <<92>>                            \* a name holding a backslash

(***************************************************************************)
(* UTF-8.  U+FFFD replaces every maximal invalid byte sequence.            *)
(***************************************************************************)
REPLACEMENT_CHARACTER == 65533

IsCont(b) == b >= 128 /\ b <= 191

Utf8CharWidth(b) ==
    IF b < 128 THEN 1
    ELSE IF b >= 194 /\ b <= 223 THEN 2
    ELSE IF b >= 224 /\ b <= 239 THEN 3
    ELSE IF b >= 240 /\ b <= 244 THEN 4
    ELSE 0

\* the byte at i, 0 past the end
SafeGet(s, i) == IF i <= Len(s) THEN s[i] ELSE 0

Second3(b, b2) ==
    \/ b = 224 /\ b2 >= 160 /\ b2 <= 191
    \/ b >= 225 /\ b <= 236 /\ IsCont(b2)
    \/ b = 237 /\ b2 >= 128 /\ b2 <= 159
    \/ b >= 238 /\ b <= 239 /\ IsCont(b2)

Second4(b, b2) ==
    \/ b = 240 /\ b2 >= 144 /\ b2 <= 191
    \/ b >= 241 /\ b <= 243 /\ IsCont(b2)
    \/ b = 244 /\ b2 >= 128 /\ b2 <= 143

\* the code point decoded at position i and the number of bytes it consumes
DecodeAt(s, i) ==
    LET b == s[i]
        w == Utf8CharWidth(b)
        b2 == SafeGet(s, i + 1)
        b3 == SafeGet(s, i + 2)
        b4 == SafeGet(s, i + 3)
        bad(n) == [cp |-> REPLACEMENT_CHARACTER, n |-> n]
    IN  CASE w = 1 -> [cp |-> b, n |-> 1]
          [] w = 2 -> IF IsCont(b2)
                      THEN [cp |-> (b - 192) * 64 + (b2 - 128), n |-> 2]
                      ELSE bad(1)
          [] w = 3 -> IF ~Second3(b, b2) THEN bad(1)
                      ELSE IF ~IsCont(b3) THEN bad(2)
                      ELSE [cp |-> (b - 224) * 4096 + (b2 - 128) * 64 + (b3 - 128),
                            n |-> 3]
          [] w = 4 -> IF ~Second4(b, b2) THEN bad(1)
                      ELSE IF ~IsCont(b3) THEN bad(2)
                      ELSE IF ~IsCont(b4) THEN bad(3)
                      ELSE [cp |-> (b - 240) * 262144 + (b2 - 128) * 4096
                                   + (b3 - 128) * 64 + (b4 - 128),
                            n |-> 4]
          [] OTHER -> bad(1)

RECURSIVE LossyFrom(_, _)
LossyFrom(s, i) ==
    IF i > Len(s) THEN <<>>
    ELSE LET d == DecodeAt(s, i) IN <<d.cp>> \o LossyFrom(s, i + d.n)

\* String::from_utf8_lossy(&body).to_string()
from_utf8_lossy(bytes) == LossyFrom(bytes, 1)

EncodeChar(c) ==
    IF c < 128 THEN <<c>>
    ELSE IF c < 2048 THEN <<192 + (c \div 64), 128 + (c % 64)>>
    ELSE IF c < 65536
         THEN <<224 + (c \div 4096), 128 + ((c \div 64) % 64), 128 + (c % 64)>>
    ELSE <<240 + (c \div 262144), 128 + ((c \div 4096) % 64),
           128 + ((c \div 64) % 64), 128 + (c % 64)>>

RECURSIVE Utf8Encode(_)
\* the bytes of a String
Utf8Encode(t) == IF t = <<>> THEN <<>> ELSE EncodeChar(Head(t)) \o Utf8Encode(Tail(t))

(***************************************************************************)
(* Decimal text of a u32 path segment (web::Path<(u32, String)>).          *)
(***************************************************************************)
IsDigits(t) == t # <<>> /\ \A i \in 1..Len(t) : t[i] >= 48 /\ t[i] <= 57

RECURSIVE ParseNat(_)
ParseNat(t) == IF t = <<>> THEN 0 ELSE ParseNat(SubSeq(t, 1, Len(t) - 1)) * 10 + (t[Len(t)] - 48)

RECURSIVE FormatNat(_)
FormatNat(n) == IF n < 10 THEN <<48 + n>> ELSE FormatNat(n \div 10) \o <<48 + (n % 10)>>

(***************************************************************************)
(* The payloads: a User, or a value whose Serialize implementation fails.  *)
(***************************************************************************)
User(name) == [kind |-> "User", name |-> name]
Unserializable == [kind |-> "Unserializable", name |-> <<>>]
NoPayload == [kind |-> "None", name |-> <<>>]

T_JsonOpen == <<123, 34, 110, 97, 109, 101, 34, 58, 34>>   \* {"name":"
T_JsonClose == <<34, 125>>                                   \* "}

RECURSIVE EscapeStr(_)
\* the serializer's string escaping: a quote and a backslash get a backslash
EscapeStr(t) ==
    IF t = <<>> THEN <<>>
    ELSE (IF Head(t) \in {34, 92} THEN <<92, Head(t)>> ELSE <<Head(t)>>)
         \o EscapeStr(Tail(t))

\* serde_json::to_string(&json)
to_string(json) ==
    IF json.kind = "User"
    THEN [ok |-> TRUE, out |-> T_JsonOpen \o EscapeStr(json.name) \o T_JsonClose]
    ELSE [ok |-> FALSE, out |-> <<>>]

RECURSIVE UnescapeStr(_)
UnescapeStr(t) ==
    IF t = <<>> THEN [ok |-> TRUE, out |-> <<>>]
    ELSE IF Head(t) = 34 THEN [ok |-> FALSE, out |-> <<>>]
    ELSE IF Head(t) = 92
         THEN IF Len(t) >= 2 /\ t[2] \in {34, 92}
              THEN LET r == UnescapeStr(Tail(Tail(t)))
                   IN  [ok |-> r.ok, out |-> <<t[2]>> \o r.out]
              ELSE [ok |-> FALSE, out |-> <<>>]
    ELSE LET r == UnescapeStr(Tail(t))
         IN  [ok |-> r.ok, out |-> <<Head(t)>> \o r.out]

\* web::Json<User>: the User read back from a request body
from_slice(bytes) ==
    LET t == from_utf8_lossy(bytes)
        n == Len(t)
        lo == Len(T_JsonOpen)
        lc == Len(T_JsonClose)
    IN  IF /\ Utf8Encode(t) = bytes
           /\ n >= lo + lc
           /\ SubSeq(t, 1, lo) = T_JsonOpen
           /\ SubSeq(t, n - lc + 1, n) = T_JsonClose
        THEN LET r == UnescapeStr(SubSeq(t, lo + 1, n - lc))
             IN  [ok |-> r.ok, user |-> User(r.out)]
        ELSE [ok |-> FALSE, user |-> User(<<>>)]

(***************************************************************************)
(* Requests and the outcomes of a service call.                            *)
(***************************************************************************)
NoRequest == [method |-> "NONE", uri |-> <<>>, content_type |-> "", payload |-> <<>>]

\* a GET request built without `.uri(url)`
TestRequestGetNoUri(url) ==
    [method |-> "GET", uri |-> <<>>, content_type |-> "", payload |-> <<>>]

\* test::TestRequest::get().uri(url).to_request()
TestRequestGet(url) ==
    [method |-> "GET", uri |-> url, content_type |-> "", payload |-> <<>>]

\* a POST request whose body is escaped once more while it is built
TestRequestPostJsonEscaped(json, url) ==
    [method |-> "POST", uri |-> url, content_type |-> "application/json",
     payload |-> Utf8Encode(EscapeStr(to_string(json).out))]

\* test::TestRequest::post().set_json(&json).uri(url).to_request()
TestRequestPostJson(json, url) ==
    [method |-> "POST", uri |-> url, content_type |-> "application/json",
     payload |-> Utf8Encode(to_string(json).out)]

NoOutcome == [kind |-> "None", status |-> 0, stream |-> <<>>, err |-> ""]
OkResponse(status, stream) == [kind |-> "Ok", status |-> status, stream |-> stream, err |-> ""]
ErrOutcome(cause) == [kind |-> "Err", status |-> 0, stream |-> <<>>, err |-> cause]

\* a handler's String as a response: status 200, the bytes in one piece
Responder(text) ==
    OkResponse(200, IF text = <<>> THEN <<>> ELSE <<Utf8Encode(text)>>)

NotFound == OkResponse(404, <<>>)

\* #[get("/{id}/{name}")] async fn index
index(req) ==
    IF req.method = "GET" /\ Len(req.uri) = 2 /\ IsDigits(req.uri[1])
    THEN Responder(T_Hello \o req.uri[2] \o T_id \o FormatNat(ParseNat(req.uri[1])))
    ELSE NotFound

\* #[post("/api/users")] async fn post_user
post_user(req) ==
    IF req.method = "POST" /\ req.uri = <<T_api, T_users>>
    THEN LET u == from_slice(req.payload)
         IN  IF req.content_type = "application/json" /\ u.ok
             THEN Responder(T_NameIs \o u.user.name \o T_Bang)
             ELSE OkResponse(400, <<>>)
    ELSE NotFound

\* SERVICE::call(req): what the service's future resolves to
AppCall(a, req) ==
    CASE a.kind = "index" -> index(req)
      [] a.kind = "users" -> post_user(req)
      [] OTHER -> IF req.method = "GET" THEN a.on_get ELSE a.on_post

IndexApp == [kind |-> "index", on_get |-> NoOutcome, on_post |-> NoOutcome]
UsersApp == [kind |-> "users", on_get |-> NoOutcome, on_post |-> NoOutcome]
\* a service that answers every GET alike and every POST alike
StubApp(on_get, on_post) == [kind |-> "stub", on_get |-> on_get, on_post |-> on_post]

\* the body streams a stub service answers with
StubStreams ==
    { <<>>,                        \* no body
      << <<72, 105>> >>,           \* "Hi" in one piece
      << <<195>>, <<169>> >>,      \* U+00E9 split over two pieces
      << <<65, 255>>, <<66>> >> }  \* an invalid byte

StubStatuses == {200, 404, 500}

StubOutcomes ==
    {OkResponse(st, bs) : st \in StubStatuses, bs \in StubStreams}
    \cup {ErrOutcome("AuthenticationError")}

Apps == {IndexApp, UsersApp} \cup {StubApp(g, p) : g \in StubOutcomes, p \in StubOutcomes}

\* the calls made against each service: [op, url, json]
GetInput(url) == [op |-> "get", url |-> url, json |-> NoPayload]
PostInput(json, url) == [op |-> "post_json", url |-> url, json |-> json]

Inputs(a) ==
    CASE a.kind = "index" ->
            { GetInput(<<T_32, T_Filip>>), GetInput(<<T_32, T_Filip, T_Not>>),
              GetInput(<<<<48, 55>>, T_Not>>), GetInput(<<T_Filip>>),
              PostInput(User(T_Filip), <<T_32, T_Filip>>) }
      [] a.kind = "users" ->
            { PostInput(User(T_Filip), <<T_api, T_users>>),
              PostInput(User(T_Quote), <<T_api, T_users>>),
              PostInput(User(T_Eacute), <<T_api, T_users>>),
              PostInput(User(T_Backslash), <<T_api, T_users>>),
              PostInput(User(<<>>), <<T_api, T_users>>),
              PostInput(Unserializable, <<T_api, T_users>>),
              PostInput(User(T_Filip), <<T_32, T_Filip>>) }
      [] OTHER ->
            { GetInput(<<T_api>>), PostInput(User(T_Filip), <<T_api>>),
              PostInput(Unserializable, <<T_api>>) }

(***************************************************************************)
(* The results get and post_json return: Ok(RespBody) or an anyhow error.  *)
(***************************************************************************)
NoResult == [kind |-> "None", status |-> 0, body |-> <<>>, msg |-> <<>>]

\* a harness that reports a 4xx or 5xx response as an error
RespBodyFailOnStatus(status, bytes) ==
    IF status >= 400
    THEN [kind |-> "Err", status |-> 0, body |-> <<>>, msg |-> <<"status", status>>]
    ELSE [kind |-> "Ok", status |-> status, body |-> from_utf8_lossy(bytes),
          msg |-> <<>>]

\* a harness whose byte buffer outlives the call: the bytes of the body
\* returned last come before those just read
RespBodyStale(status, bytes) ==
    LET kept == IF log # <<>> /\ log[Len(log)].result.kind = "Ok"
                THEN Utf8Encode(log[Len(log)].result.body)
                ELSE <<>>
    IN  [kind |-> "Ok", status |-> status, body |-> from_utf8_lossy(kept \o bytes),
         msg |-> <<>>]

\* Ok(RespBody { status, body }) with body = from_utf8_lossy of the drained bytes
RespBodyOf(status, bytes) ==
    [kind |-> "Ok", status |-> status, body |-> from_utf8_lossy(bytes), msg |-> <<>>]

\* a harness that swallows the failure and answers with an empty 500
DispatchErrorSwallowed(err) ==
    [kind |-> "Ok", status |-> 500, body |-> <<>>, msg |-> <<>>]

\* Err(anyhow::anyhow!("call_service_res failed: {:?}", err))
DispatchError(err) ==
    [kind |-> "Err", status |-> 0, body |-> <<>>,
     msg |-> <<"call_service_res failed: ", err>>]

\* a primitive that turns a 4xx or 5xx response into an error
call_service_res_checked(out) ==
    IF out.kind = "Ok" /\ out.status >= 400
    THEN [kind |-> "Err", status |-> 0, stream |-> <<>>, err |-> "status"]
    ELSE out

\* app.call(req).await: the outcome of the service's call, as it is
call_service_res(out) == out

(***************************************************************************)
(* The future of one get or post_json call.                                *)
(***************************************************************************)
Idle ==
    [pc |-> "idle", op |-> "none", url |-> <<>>, json |-> NoPayload,
     req |-> NoRequest, delivered |-> 0, callres |-> NoOutcome, status |-> 0,
     stream |-> <<>>, bytes |-> <<>>, result |-> NoResult, returns |-> 0,
     trace |-> <<>>]

NewFuture(op, url, json) == [Idle EXCEPT !.pc = "start", !.op = op, !.url = url, !.json = json]

NoCall == [state |-> "none", req |-> NoRequest, out |-> NoOutcome]

\* a call that takes the service by shared reference
SharedBorrow(c) == TRUE

\* `app: &'a mut SERVICE`: the call needs the only borrow of the service
MutBorrow(c) == borrow = {}

\* a harness that calls the service a second time
DeliverTwice(f, req) ==
    [f EXCEPT !.pc = "awaiting", !.req = req, !.delivered = @ + 2,
              !.trace = @ \o <<"built", "invoked", "invoked">>]

\* the request is built and handed to app.call once; the future then awaits
Deliver(f, req) ==
    [f EXCEPT !.pc = "awaiting", !.req = req, !.delivered = @ + 1,
              !.trace = @ \o <<"built", "invoked">>]

\* `Err(err) => return Err(..)`
ReturnErr(f, r) ==
    [f EXCEPT !.pc = "done", !.callres = r, !.result = DispatchError(r.err),
              !.returns = @ + 1, !.trace = @ \o <<"call_err", "return_err">>]

\* `Ok(resp) => resp`, the status is taken and read_body starts
StartDrain(f, r) ==
    [f EXCEPT !.pc = "draining", !.callres = r, !.status = r.status,
              !.stream = r.stream, !.bytes = <<>>,
              !.trace = @ \o <<"call_ok", "drain_start">>]

\* a loop that stops one item early
StreamDoneEarly(f) == Len(f.stream) <= 1

\* read_body's loop ends when the body stream yields no further item
StreamDone(f) == f.stream = <<>>

\* read_body: the next item of the stream is appended to the bytes read
ExtendFromSlice(f) ==
    [f EXCEPT !.bytes = @ \o Head(f.stream), !.stream = Tail(@),
              !.trace = @ \o <<"chunk">>]

\* the body is decoded and Ok(RespBody) returned
ReturnOk(f) ==
    [f EXCEPT !.pc = "done", !.result = RespBodyOf(f.status, f.bytes),
              !.returns = @ + 1, !.trace = @ \o <<"drain_end", "return_ok">>]

LogEntry(f) == [op |-> f.op, url |-> f.url, json |-> f.json, result |-> f.result]

(***************************************************************************)
(* Actions.                                                                *)
(***************************************************************************)
Init ==
    /\ app \in Apps
    /\ fut = [c \in Callers |-> Idle]
    /\ svcfut = [c \in Callers |-> NoCall]
    /\ borrow = {}
    /\ log = <<>>
    /\ calls = 0
    /\ aborted = FALSE

\* a caller may begin a call when it has no call under way
Begin(c) ==
    /\ ~aborted
    /\ calls < MaxCalls
    /\ fut[c].pc \in {"idle", "done"}
    /\ MutBorrow(c)
    /\ calls' = calls + 1
    /\ borrow' = {c}

\* get(&mut app, url) up to its first await
CallGet(c, url) ==
    /\ Begin(c)
    /\ LET f == Deliver(NewFuture("get", url, NoPayload), TestRequestGet(url))
       IN  /\ fut' = [fut EXCEPT ![c] = f]
           /\ svcfut' = [svcfut EXCEPT ![c] = [state |-> "pending", req |-> f.req,
                                                out |-> NoOutcome]]
    /\ UNCHANGED <<app, log, aborted>>

\* post_json(&mut app, json, url) up to its first await; set_json panics
\* when the payload does not serialize
CallPostJson(c, json, url) ==
    /\ Begin(c)
    /\ IF to_string(json).ok
       THEN LET f == Deliver(NewFuture("post_json", url, json),
                             TestRequestPostJson(json, url))
            IN  /\ fut' = [fut EXCEPT ![c] = f]
                /\ svcfut' = [svcfut EXCEPT ![c] = [state |-> "pending",
                                                     req |-> f.req,
                                                     out |-> NoOutcome]]
                /\ aborted' = aborted
       ELSE /\ fut' = [fut EXCEPT ![c] =
                         [NewFuture("post_json", url, json) EXCEPT
                            !.pc = "panicked", !.trace = <<"panic">>]]
            /\ svcfut' = [svcfut EXCEPT ![c] = NoCall]
            /\ aborted' = TRUE
    /\ UNCHANGED <<app, log>>

\* the service completes the call it was handed
ServiceReady(c) ==
    /\ ~aborted
    /\ svcfut[c].state = "pending"
    /\ svcfut' = [svcfut EXCEPT ![c] = [state |-> "ready", req |-> svcfut[c].req,
                                        out |-> AppCall(app, svcfut[c].req)]]
    /\ UNCHANGED <<app, fut, borrow, log, calls, aborted>>

\* the future resumes after call_service_res(app, req).await
Resume(c) ==
    /\ ~aborted
    /\ fut[c].pc = "awaiting"
    /\ svcfut[c].state = "ready"
    /\ LET r == call_service_res(svcfut[c].out)
       IN  IF r.kind = "Err"
           THEN LET f == ReturnErr(fut[c], r)
                IN  /\ fut' = [fut EXCEPT ![c] = f]
                    /\ log' = Append(log, LogEntry(f))
                    /\ borrow' = {}
           ELSE /\ fut' = [fut EXCEPT ![c] = StartDrain(fut[c], r)]
                /\ UNCHANGED <<log, borrow>>
    /\ UNCHANGED <<app, svcfut, calls, aborted>>

\* test::read_body(resp).await takes one item of the body stream
ReadChunk(c) ==
    /\ ~aborted
    /\ fut[c].pc = "draining"
    /\ ~StreamDone(fut[c])
    /\ fut' = [fut EXCEPT ![c] = ExtendFromSlice(fut[c])]
    /\ UNCHANGED <<app, svcfut, borrow, log, calls, aborted>>

\* the stream is exhausted: the body is decoded and the RespBody returned
Finish(c) ==
    /\ ~aborted
    /\ fut[c].pc = "draining"
    /\ StreamDone(fut[c])
    /\ LET f == ReturnOk(fut[c])
       IN  /\ fut' = [fut EXCEPT ![c] = f]
           /\ log' = Append(log, LogEntry(f))
    /\ borrow' = {}
    /\ UNCHANGED <<app, svcfut, calls, aborted>>

Next ==
    \E c \in Callers :
        \/ \E i \in Inputs(app) : i.op = "get" /\ CallGet(c, i.url)
        \/ \E i \in Inputs(app) : i.op = "post_json" /\ CallPostJson(c, i.json, i.url)
        \/ ServiceReady(c)
        \/ Resume(c)
        \/ ReadChunk(c)
        \/ Finish(c)

Spec == Init /\ [][Next]_vars

(***************************************************************************)
(* Properties.                                                             *)
(***************************************************************************)
RECURSIVE Flatten(_)
\* the complete body of a response: its pieces end to end
Flatten(stream) == IF stream = <<>> THEN <<>> ELSE Head(stream) \o Flatten(Tail(stream))

Has(t, e) == \E i \in 1..Len(t) : t[i] = e
Idx(t, e) == IF Has(t, e) THEN CHOOSE i \in 1..Len(t) : t[i] = e /\ \A j \in 1..(i - 1) : t[j] # e
             ELSE 0
Count(t, e) == Cardinality({i \in 1..Len(t) : t[i] = e})

Delivered(c) == fut[c].pc \in {"awaiting", "draining", "done"}
Active(c) == fut[c].pc \in {"awaiting", "draining"}
Answered(c) == svcfut[c].state = "ready" /\ svcfut[c].out.kind = "Ok"
Failed(c) == svcfut[c].state = "ready" /\ svcfut[c].out.kind = "Err"

C2_FailureIsErr ==
    \A c \in Callers :
        /\ Failed(c) =>
            /\ fut[c].pc \in {"awaiting", "done"}
            /\ fut[c].result.kind # "Ok"
            /\ fut[c].pc = "done" =>
                /\ fut[c].result.kind = "Err"
                /\ Has(fut[c].result.msg, svcfut[c].out.err)
        /\ fut[c].result.kind = "Err" => Failed(c)

C2_Witness ==
    \E c \in Callers :
        /\ Failed(c) /\ fut[c].pc = "done" /\ fut[c].op = "get"
        /\ fut[c].result.kind = "Err"
        /\ Has(fut[c].result.msg, "AuthenticationError")
        /\ ~aborted

\* C3: in post_json a payload that fails to serialize ends the call with an
\* error value: the process is not aborted and no request is delivered.
C3_SerializeFailureIsErr ==
    \A c \in Callers :
        (fut[c].op = "post_json" /\ ~to_string(fut[c].json).ok) =>
            /\ fut[c].pc = "done"
            /\ fut[c].result.kind = "Err"
            /\ fut[c].delivered = 0
            /\ ~aborted

\* C4: a call whose request was built delivers exactly one request to the
\* service, whether the service answers or fails, and returns at most once:
\* exactly once when it is done.
C4_ExactlyOneRequest ==
    \A c \in Callers :
        /\ Delivered(c) =>
            /\ fut[c].delivered = 1
            /\ Count(fut[c].trace, "invoked") = 1
        /\ fut[c].returns <= 1
        /\ fut[c].pc = "done" <=> fut[c].returns = 1

C4_Witness ==
    \E c, d \in Callers :
        /\ c # d
        /\ Failed(c) /\ fut[c].pc = "done" /\ fut[c].delivered = 1
        /\ fut[c].returns = 1
        /\ Answered(d) /\ fut[d].pc = "done" /\ fut[d].delivered = 1

\* C5: what call_service_res returns is the outcome of the service's call,
\* unchanged: a response of any status stays that response, an error stays
\* that error, and no panic happens once the request is with the service.
C5_RawOutcome ==
    \A c \in Callers :
        /\ fut[c].pc \in {"draining", "done"} =>
            /\ fut[c].callres = svcfut[c].out
            /\ Answered(c) => fut[c].callres.kind = "Ok"
        /\ svcfut[c].state # "none" => fut[c].pc # "panicked"

C5_Witness ==
    \E c, d \in Callers :
        /\ fut[c].pc = "done" /\ Answered(c)
        /\ fut[c].callres.kind = "Ok" /\ fut[c].callres.status = 404
        /\ fut[d].pc = "done" /\ Failed(d)
        /\ fut[d].callres = ErrOutcome("AuthenticationError")

\* C6: against the app of the tests (route "/{id}/{name}"), get on a path
\* that matches no route returns Ok with status 404 and an empty body; on a
\* path that matches it returns status 200 and exactly the handler's text,
\* "Hello {name}! id:{id}".
C6_Routing ==
    app.kind = "index" =>
        \A c \in Callers :
            (fut[c].pc = "done" /\ fut[c].op = "get") =>
                LET url == fut[c].url
                IN  /\ fut[c].result.kind = "Ok"
                    /\ IF Len(url) = 2 /\ IsDigits(url[1])
                       THEN /\ fut[c].result.status = 200
                            /\ fut[c].result.body =
                                  T_Hello \o url[2] \o T_id
                                  \o FormatNat(ParseNat(url[1]))
                       ELSE /\ fut[c].result.status = 404
                            /\ fut[c].result.body = <<>>
                    /\ url = <<T_32, T_Filip>> =>
                          fut[c].result.body =
                              <<72, 101, 108, 108, 111, 32, 70, 105, 108, 105, 112,
                                33, 32, 105, 100, 58, 51, 50>>

C6_Witness ==
    /\ app.kind = "index"
    /\ \E c, d \in Callers :
        /\ fut[c].pc = "done" /\ fut[c].op = "get"
        /\ fut[c].url = <<T_32, T_Filip, T_Not>>
        /\ fut[c].result.kind = "Ok" /\ fut[c].result.status = 404
        /\ fut[c].result.body = <<>>
        /\ fut[d].pc = "done" /\ fut[d].op = "get"
        /\ fut[d].url = <<T_32, T_Filip>>
        /\ fut[d].result.status = 200

\* C7: the request post_json hands to the service has method POST, the
\* given path, the JSON content type and as body exactly the bytes of the
\* serializer's output for the payload; the app of the tests then answers
\* with "Name is: {name}!" for the payload's name.
C7_PostRequest ==
    \A c \in Callers :
        (fut[c].op = "post_json" /\ Delivered(c)) =>
            /\ svcfut[c].req.method = "POST"
            /\ svcfut[c].req.uri = fut[c].url
            /\ svcfut[c].req.content_type = "application/json"
            /\ svcfut[c].req.payload = Utf8Encode(to_string(fut[c].json).out)
            /\ fut[c].json = User(T_Filip) =>
                  svcfut[c].req.payload =
                      <<123, 34, 110, 97, 109, 101, 34, 58, 34,
                        70, 105, 108, 105, 112, 34, 125>>
            /\ (app.kind = "users" /\ fut[c].url = <<T_api, T_users>>
                   /\ fut[c].pc = "done") =>
                  /\ fut[c].result.kind = "Ok"
                  /\ fut[c].result.status = 200
                  /\ fut[c].result.body = T_NameIs \o fut[c].json.name \o T_Bang

C7_Witness ==
    /\ app.kind = "users"
    /\ \E c, d \in Callers :
        /\ fut[c].op = "post_json" /\ fut[c].pc = "done"
        /\ fut[c].json = User(T_Quote)
        /\ fut[c].result.body = T_NameIs \o T_Quote \o T_Bang
        /\ fut[d].op = "post_json" /\ fut[d].pc = "done"
        /\ fut[d].json = User(T_Eacute)
        /\ fut[d].result.body = T_NameIs \o T_Eacute \o T_Bang

SameDispatch(a, b) == a.op = b.op /\ a.url = b.url /\ a.json = b.json

\* C8: of two consecutive dispatches with the same operation, path and
\* payload against the (stateless) service, the second returns the same
\* value as the first.
C8_Idempotent ==
    \A i \in 1..(Len(log) - 1) :
        SameDispatch(log[i], log[i + 1]) => log[i + 1].result = log[i].result

C8_Witness ==
    \E i \in 1..(Len(log) - 1) :
        /\ SameDispatch(log[i], log[i + 1])
        /\ log[i].result.kind = "Ok"
        /\ log[i].result.body # <<>>
        /\ log[i + 1].result = log[i].result

\* C9: within one dispatch the request is built before the service is
\* invoked; the body drain starts only after the service's call completed
\* with a response and never after it failed; Ok(RespBody) is returned only
\* when every piece of the body stream has been read, so the body is the
\* decoding of the whole body; an empty stream gives the empty text.
C9_StepOrder ==
    \A c \in Callers :
        LET t == fut[c].trace
        IN  /\ Has(t, "invoked") => 0 < Idx(t, "built") /\ Idx(t, "built") < Idx(t, "invoked")
            /\ Has(t, "drain_start") =>
                /\ Answered(c)
                /\ Idx(t, "invoked") < Idx(t, "call_ok")
                /\ Idx(t, "call_ok") < Idx(t, "drain_start")
            /\ Has(t, "chunk") => Idx(t, "drain_start") < Idx(t, "chunk")
            /\ (Has(t, "call_err") \/ Failed(c)) =>
                /\ ~Has(t, "drain_start") /\ ~Has(t, "chunk")
                /\ fut[c].bytes = <<>>
            /\ fut[c].result.kind = "Ok" =>
                /\ Idx(t, "return_ok") = Len(t)
                /\ Idx(t, "drain_start") < Idx(t, "drain_end")
                /\ fut[c].stream = <<>>
                /\ Count(t, "chunk") = Len(fut[c].callres.stream)
                /\ fut[c].bytes = Flatten(fut[c].callres.stream)
                /\ fut[c].result.body = from_utf8_lossy(Flatten(fut[c].callres.stream))
                /\ fut[c].callres.stream = <<>> => fut[c].result.body = <<>>

C9_Witness ==
    \E c, d \in Callers :
        /\ fut[c].result.kind = "Ok" /\ Count(fut[c].trace, "chunk") = 2
        /\ fut[c].trace = <<"built", "invoked", "call_ok", "drain_start",
                            "chunk", "chunk", "drain_end", "return_ok">>
        /\ fut[d].result.kind = "Ok" /\ svcfut[d].out.stream = <<>>
        /\ fut[d].result.body = <<>>

\* C10: a dispatch holds the only borrow of the service from its start
\* until it returns, body drain included: while one dispatch is under way
\* every other caller's dispatch has either not begun or has returned with
\* its body fully read, and the service has at most one call in progress.
C10_Exclusive ==
    /\ \A c \in Callers :
        Active(c) =>
            /\ borrow = {c}
            /\ \A d \in Callers \ {c} :
                /\ fut[d].pc \in {"idle", "done"}
                /\ fut[d].stream = <<>>
    /\ Cardinality({c \in Callers : svcfut[c].state = "pending"}) <= 1

C10_Witness ==
    \E c, d \in Callers :
        /\ c # d
        /\ fut[c].pc = "draining" /\ fut[c].bytes # <<>> /\ fut[c].stream # <<>>
        /\ borrow = {c}
        /\ fut[d].pc = "done" /\ fut[d].result.kind = "Ok" /\ fut[d].result.body # <<>>

====
